---------------------------- MODULE Spec2Model ----------------------------
(***************************************************************************)
(* Model of flybee's configuration module (src/flybee/config.py): the      *)
(* setting registry filled by the SettingMeta metaclass, Setting value     *)
(* holders, make_settings/Config, Setting.add_option and the validators    *)
(* validate_bool, validate_string, validate_string_list and                *)
(* validate_callable.                                                      *)
(*                                                                         *)
(* The module is Python 2 code (__metaclass__, filter() returning a list,  *)
(* inspect.getargspec); the model follows Python 2 semantics.              *)
(*                                                                         *)
(* Python strings are sequences of one-character strings, so that strip(), *)
(* lower(), split(',') and rsplit('.', 1) are computed, not assumed.       *)
(***************************************************************************)
EXTENDS Integers, Sequences, FiniteSets, TLC

VARIABLES
    setting_classes,  \* the module-level registry list (config.py line 12)
    heap,             \* live Setting instances: heap[id] = [cls, value]
    configs,          \* live Config objects: configs[i] = [settings |-> name -> id]
    last,             \* outcome of the last call on the stateful API
    arg,              \* argument of the pure function under test
    ret               \* its outcome

vars == <<setting_classes, heap, configs, last, arg, ret>>

----------------------------------------------------------------------------
(* Bounds of the model *)

MaxKinds == 2
MaxObjs == 2
MaxConfigs == 2
MaxStrLen == 4

----------------------------------------------------------------------------
(* Python values: one record shape for every value, so that any two values *)
(* can be compared.  t is the type tag, n an integer payload (the integer, *)
(* 0/1 for a bool, the number of named arguments of a function), s the     *)
(* characters of a string, l the elements of a list.                       *)

PyVal(t, n, s, l) == [t |-> t, n |-> n, s |-> s, l |-> l]
None == PyVal("none", 0, <<>>, <<>>)
PyBool(b) == PyVal("bool", IF b THEN 1 ELSE 0, <<>>, <<>>)
PyInt(i) == PyVal("int", i, <<>>, <<>>)
PyStr(cs) == PyVal("str", 0, cs, <<>>)
PyList(vs) == PyVal("list", 0, <<>>, vs)
\* a Python function taking k named arguments
PyFunc(k) == PyVal("function", k, <<>>, <<>>)
\* a callable that inspect.getargspec refuses (a builtin, an object with __call__)
PyBuiltin == PyVal("builtin", 0, <<>>, <<>>)

\* The outcome of a call: a returned value, or the exception it raised.
Return(v) == [status |-> "ok", val |-> v]
Raise(e) == [status |-> e, val |-> None]

----------------------------------------------------------------------------
(* str methods *)

IsSpace(c) == c \in {" ", "\n", "\t"}

RECURSIVE LStrip(_)
LStrip(cs) ==
    IF cs # <<>> /\ IsSpace(Head(cs)) THEN LStrip(Tail(cs)) ELSE cs

RECURSIVE RStrip(_)
RStrip(cs) ==
    IF cs # <<>> /\ IsSpace(cs[Len(cs)])
    THEN RStrip(SubSeq(cs, 1, Len(cs) - 1))
    ELSE cs

\* str.strip()
Strip(cs) == RStrip(LStrip(cs))

LowerChar(c) ==
    CASE c = "T" -> "t" [] c = "R" -> "r" [] c = "U" -> "u" [] c = "E" -> "e"
      [] c = "F" -> "f" [] c = "A" -> "a" [] c = "L" -> "l" [] c = "S" -> "s"
      [] c = "N" -> "n" [] c = "O" -> "o"
      [] OTHER -> c

\* str.lower()
Lower(cs) == [i \in 1..Len(cs) |-> LowerChar(cs[i])]

\* str.split(sep) for a one-character separator: always at least one piece
RECURSIVE SplitOn(_, _, _)
SplitOn(cs, sep, cur) ==
    IF cs = <<>> THEN <<cur>>
    ELSE IF Head(cs) = sep THEN <<cur>> \o SplitOn(Tail(cs), sep, <<>>)
    ELSE SplitOn(Tail(cs), sep, Append(cur, Head(cs)))

Split(cs, sep) == SplitOn(cs, sep, <<>>)

\* str.splitlines(): the lines without their line ends; no line for ''
\* and no empty last line after a final line end
SplitLines(cs) ==
    LET pieces == Split(cs, "\n")
    IN  IF pieces[Len(pieces)] = <<>>
        THEN SubSeq(pieces, 1, Len(pieces) - 1)
        ELSE pieces

\* the positions of character c in cs
Positions(cs, c) == {i \in 1..Len(cs) : cs[i] = c}

Max(S) == CHOOSE m \in S : \A x \in S : x <= m

\* str.rsplit(sep, 1): one piece without sep, else the text before and after
\* the last sep
RSplit1(cs, sep) ==
    IF Positions(cs, sep) = {} THEN <<cs>>
    ELSE LET p == Max(Positions(cs, sep))
         IN  <<SubSeq(cs, 1, p - 1), SubSeq(cs, p + 1, Len(cs))>>

\* Python truth value of a value
Truthy(v) ==
    CASE v.t = "none" -> FALSE
      [] v.t \in {"bool", "int"} -> v.n # 0
      [] v.t = "str" -> v.s # <<>>
      [] v.t = "list" -> v.l # <<>>
      [] OTHER -> TRUE

----------------------------------------------------------------------------
(* Validators *)

validate_bool(val) ==
    IF val.t = "bool" THEN Return(val)
    ELSE IF val.t = "int" /\ val.n \in {0, 1} THEN Return(PyBool(val.n = 1))
    ELSE IF val.t # "str" THEN Raise("TypeError")
    ELSE IF Strip(Lower(val.s)) = <<"t", "r", "u", "e">> THEN Return(PyBool(TRUE))
    ELSE IF Strip(Lower(val.s)) = <<"f", "a", "l", "s", "e">> THEN Return(PyBool(FALSE))
    ELSE Raise("ValueError")

validate_string(val) ==
    IF val.t = "none" THEN Return(None)
    ELSE IF val.t # "str" THEN Raise("TypeError")
    ELSE Return(PyStr(Strip(val.s)))

\* self.validator(value): the definition's validator applied to value.  A
\* definition that sets no validator keeps the class attribute None, and
\* calling None raises TypeError.
CallValidator(validator, value) ==
    CASE validator = "validate_bool" -> validate_bool(value)
      [] validator = "validate_string" -> validate_string(value)
      [] OTHER -> Raise("TypeError")

NonEmpty(v) == v # <<>>

validate_string_list(val) ==
    IF ~Truthy(val) THEN Return(PyList(<<>>))
    ELSE IF val.t = "str"
    THEN \* [v.strip() for v in val.split(',') if v]
         LET kept == SelectSeq(Split(val.s, ","), NonEmpty)
         IN  Return(PyList([i \in 1..Len(kept) |-> PyStr(Strip(kept[i]))]))
    ELSE IF val.t = "list"
    THEN \* [validate_string(v) for v in val]
         IF \E i \in 1..Len(val.l) : validate_string(val.l[i]).status # "ok"
         THEN Raise("TypeError")
         ELSE Return(PyList([i \in 1..Len(val.l) |->
                               validate_string(val.l[i]).val]))
    ELSE \* iterating a value that is no sequence
         Raise("TypeError")

\* The modules of the running process: one importable plain module "m"
\* with two functions, of 2 and 3 named arguments, a builtin callable and a
\* value that is not callable.
ModuleAttrs ==
    [a \in {<<"f">>, <<"g">>, <<"b">>, <<"v">>} |->
       CASE a = <<"f">> -> PyFunc(2)
         [] a = <<"g">> -> PyFunc(3)
         [] a = <<"b">> -> PyBuiltin
         [] OTHER -> PyInt(7)]

\* __import__(mod_name, fromlist=[obj_name]) in Python 2: the dotted name is
\* imported component by component; an empty component raises ValueError
\* ("Empty module name"), a component that is not found raises ImportError.
Import(mod_name) ==
    LET parts == Split(mod_name, ".")
    IN  IF parts[1] = <<>> THEN Raise("ValueError")
        ELSE IF parts[1] # <<"m">> THEN Raise("ImportError")
        ELSE IF Len(parts) = 1 THEN Return(None)
        ELSE IF parts[2] = <<>> THEN Raise("ValueError")
        ELSE Raise("ImportError")

\* getattr(mod, obj_name) on module "m"
GetAttr(obj_name) ==
    IF obj_name \in DOMAIN ModuleAttrs
    THEN Return(ModuleAttrs[obj_name])
    ELSE Raise("AttributeError")

\* six.callable
Callable(v) == v.t \in {"function", "builtin"}

\* len(inspect.getargspec(val)[0]); getargspec raises TypeError for a
\* callable that is no Python function
ArgCount(v) == IF v.t = "function" THEN Return(PyInt(v.n)) ELSE Raise("TypeError")

\* the steps of _validate_callable after the import-string resolution
check_callable(arity, val) ==
    IF ~Callable(val) THEN Raise("TypeError")
    ELSE IF arity # None /\ ArgCount(val).status # "ok"
    THEN Raise(ArgCount(val).status)
    ELSE IF arity # None /\ arity # ArgCount(val).val THEN Raise("TypeError")
    ELSE Return(val)

\* validate_callable(arity)(val)
validate_callable(arity, val) ==
    IF val.t = "str"
    THEN LET parts == RSplit1(val.s, ".")
         IN  IF Len(parts) # 2 THEN Raise("TypeError")
             ELSE IF Import(parts[1]).status # "ok"
             THEN Raise(Import(parts[1]).status)
             ELSE IF GetAttr(parts[2]).status # "ok"
             THEN Raise(GetAttr(parts[2]).status)
             ELSE check_callable(arity, GetAttr(parts[2]).val)
    ELSE check_callable(arity, val)

----------------------------------------------------------------------------
(* Setting kinds.  A class body is what a class statement passes to the    *)
(* metaclass as cls_dict: the attributes the body sets.  copy says whether  *)
(* the body defines a copy() method returning a shallow copy of the         *)
(* instance; Setting itself defines none.                                   *)

ClassBody(name, validator, default, desc, copy) ==
    [name |-> name, validator |-> validator, default |-> default,
     desc |-> desc, copy |-> copy]

ClassBodies ==
    { ClassBody("x", "validate_bool", None, <<"h">>, TRUE),
      ClassBody("x", "validate_string", PyStr(<<" ", "a", " ">>),
                <<" ", "d", " ", "\n", "e", "\n">>, TRUE),
      ClassBody("y", "validate_bool", PyBool(FALSE), <<"h">>, FALSE),
      ClassBody("y", "validate_bool", PyStr(<<"n", "o">>), <<"h">>, TRUE),
      ClassBody("y", "None", None, <<"h">>, TRUE),
      ClassBody("x", "validate_string", None, <<" ", "\n">>, TRUE) }

Names == {b.name : b \in ClassBodies}

\* Raw values handed to Setting.set
RawInputs ==
    { None, PyInt(0), PyStr(<<" ", "T", "r", "u", "e", "\n">>),
      PyStr(<<" ", "a", " ">>) }

EmptyMap == [k \in {} |-> 0]

MapPut(m, k, v) == [x \in DOMAIN m \cup {k} |-> IF x = k THEN v ELSE m[x]]

\* SettingMeta.fmt_desc: cls.short is the first line of the dedented,
\* stripped text.  dedent() removes only leading white space of lines and
\* strip() removes all white space before the first line, so the first
\* line is that of the stripped text.  A text without lines raises
\* IndexError.
fmt_desc(desc) ==
    LET lines == SplitLines(Strip(desc))
    IN  IF lines = <<>> THEN Raise("IndexError") ELSE Return(PyStr(lines[1]))

\* Mutant of NewOrder: the order taken as if the class were already appended
NewOrder_after_append(reg) == Len(reg) + 1

\* cls_dict['order'] = len(setting_classes)
NewOrder(reg) == Len(reg)

\* SettingMeta.__new__ for a class with a SettingMeta base: the class
\* object it builds, and the registry after it
SettingMeta_new(reg, body) ==
    LET order == NewOrder(reg)
        short == fmt_desc(body.desc)
        new_class == [name |-> body.name, validator |-> body.validator,
                      default |-> body.default, copy |-> body.copy,
                      order |-> order, short |-> short.val]
    IN  IF short.status # "ok"
        THEN [status |-> short.status, reg |-> reg]
        ELSE [status |-> "ok", reg |-> Append(reg, new_class)]

----------------------------------------------------------------------------
(* Setting instances live in a heap: h[id] = [cls, value], cls the         *)
(* registry position of the instance's class.                              *)

\* Mutant of Setting_set: the raw value stored without validation
Setting_set_unvalidated(reg, h, id, value) ==
    [status |-> "ok", heap |-> [h EXCEPT ![id].value = value]]

\* Mutant of Setting_set: the value cleared before the validator runs
Setting_set_clears(reg, h, id, value) ==
    LET r == CallValidator(reg[h[id].cls].validator, value)
    IN  IF r.status = "ok"
        THEN [status |-> "ok", heap |-> [h EXCEPT ![id].value = r.val]]
        ELSE [status |-> r.status, heap |-> [h EXCEPT ![id].value = None]]

\* Mutant of Setting_set: the value stored on the class, so that every
\* instance of the class sees it
Setting_set_on_class(reg, h, id, value) ==
    LET r == CallValidator(reg[h[id].cls].validator, value)
    IN  IF r.status = "ok"
        THEN [status |-> "ok",
              heap |-> [j \in 1..Len(h) |->
                          IF h[j].cls = h[id].cls
                          THEN [h[j] EXCEPT !.value = r.val]
                          ELSE h[j]]]
        ELSE [status |-> r.status, heap |-> h]

\* Setting.set on instance id of heap h
Setting_set(reg, h, id, value) ==
    LET r == CallValidator(reg[h[id].cls].validator, value)
    IN  IF r.status = "ok"
        THEN [status |-> "ok", heap |-> [h EXCEPT ![id].value = r.val]]
        ELSE [status |-> r.status, heap |-> h]

\* Setting.get
Setting_get(h, id) == h[id].value

\* Mutant of Setting_init: the default tested for truth, not against None
Setting_init_truthy(reg, k) ==
    LET fresh == <<[cls |-> k, value |-> None]>>
    IN  IF Truthy(reg[k].default)
        THEN LET r == CallValidator(reg[k].validator, reg[k].default)
             IN  [status |-> r.status,
                  self |-> [fresh[1] EXCEPT !.value = r.val]]
        ELSE [status |-> "ok", self |-> fresh[1]]

\* SettingClass(): Setting.__init__ on a new instance of reg[k], whose
\* value is the class attribute None until set assigns it
Setting_init(reg, k) ==
    LET fresh == <<[cls |-> k, value |-> None]>>
    IN  IF reg[k].default # None
        THEN LET r == Setting_set(reg, fresh, 1, reg[k].default)
             IN  [status |-> r.status, self |-> r.heap[1]]
        ELSE [status |-> "ok", self |-> fresh[1]]

\* instance.copy(): AttributeError unless the class body defines copy
Setting_copy(reg, self) ==
    IF reg[self.cls].copy THEN Return(self) ELSE Raise("AttributeError")

\* the loop of make_settings from registry position i on, settings being
\* the dict built so far (name -> instance)
RECURSIVE make_settings_from(_, _, _, _)
make_settings_from(reg, ignores, i, settings) ==
    IF i > Len(reg) THEN [status |-> "ok", settings |-> settings]
    ELSE IF reg[i].name \in ignores
         THEN make_settings_from(reg, ignores, i + 1, settings)
    ELSE LET inst == Setting_init(reg, i)
             cp == Setting_copy(reg, inst.self)
         IN  IF inst.status # "ok"
             THEN [status |-> inst.status, settings |-> EmptyMap]
             ELSE IF cp.status # "ok"
             THEN [status |-> cp.status, settings |-> EmptyMap]
             ELSE make_settings_from(reg, ignores, i + 1,
                                     MapPut(settings, reg[i].name, cp.val))

make_settings(reg, ignores) == make_settings_from(reg, ignores, 1, EmptyMap)

\* The instances of a settings dict become heap objects of their own: the
\* heap after it and the dict as name -> id.
RECURSIVE Allocate(_, _, _)
Allocate(h, settings, names) ==
    IF names = {} THEN [heap |-> h, ids |-> EmptyMap]
    ELSE LET n == CHOOSE x \in names : TRUE
             rest == Allocate(Append(h, settings[n]), settings, names \ {n})
         IN  [heap |-> rest.heap, ids |-> MapPut(rest.ids, n, Len(h) + 1)]

\* the str builtin, the default type of a 'store' argument
PyType_str == PyVal("type", 0, <<"s", "t", "r">>, <<>>)
PyType_int == PyVal("type", 0, <<"i", "n", "t">>, <<>>)
STORE == PyStr(<<"s", "t", "o", "r", "e">>)
STORE_TRUE == PyStr(<<"s", "t", "o", "r", "e", "_", "t", "r", "u", "e">>)

\* kwargs[key] = value when cond holds
PutIf(cond, kwargs, key, value) ==
    IF cond THEN MapPut(kwargs, key, value) ELSE kwargs

\* Setting.add_option: the parser's arguments after the call, an argument
\* being the flags and keyword arguments given to parser.add_argument
add_option(self, parser) ==
    IF ~Truthy(self.cli) THEN parser
    ELSE LET kw0 == [k \in {"dest", "action", "default", "help"} |->
                       CASE k = "dest" -> self.name
                         [] k = "action" ->
                              IF Truthy(self.action) THEN self.action ELSE STORE
                         [] k = "default" -> None
                         [] OTHER -> self.short]
             kw1 == PutIf(self.action = STORE, kw0, "type",
                          IF Truthy(self.type) THEN self.type ELSE PyType_str)
             kw2 == PutIf(self.metavar # None, kw1, "metavar", self.metavar)
             kw3 == PutIf(self.nargs # None, kw2, "nargs", self.nargs)
             kw4 == PutIf(self.const # None, kw3, "const", self.const)
         IN  Append(parser, [flags |-> self.cli.l, kwargs |-> kw4])

----------------------------------------------------------------------------
(* The stateful API *)

Outcome(op, status, id, raw, before, ignores, settings) ==
    [op |-> op, status |-> status, id |-> id, raw |-> raw, before |-> before,
     ignores |-> ignores, settings |-> settings]

NoCall == [called |-> FALSE, status |-> "ok", val |-> None]

Init ==
    /\ setting_classes = <<>>
    /\ heap = <<>>
    /\ configs = <<>>
    /\ last = Outcome("import", "ok", 0, None, None, {}, EmptyMap)
    /\ arg = None
    /\ ret = NoCall

\* class <Kind>(Setting): <body>
DeclareKind(body) ==
    /\ Len(setting_classes) < MaxKinds
    /\ LET r == SettingMeta_new(setting_classes, body)
       IN  /\ setting_classes' = r.reg
           /\ last' = Outcome("class", r.status, 0, None, None, {}, EmptyMap)
    /\ UNCHANGED <<heap, configs, arg, ret>>

\* a class statement with metaclass SettingMeta and no SettingMeta base
\* (as Setting itself): built, not registered
DeclareRoot ==
    /\ last' = Outcome("root", "ok", 0, None, None, {}, EmptyMap)
    /\ UNCHANGED <<setting_classes, heap, configs, arg, ret>>

\* SettingClass() kept by the caller
Construct(k) ==
    /\ Len(heap) < MaxObjs
    /\ LET r == Setting_init(setting_classes, k)
       IN  IF r.status = "ok"
           THEN /\ heap' = Append(heap, r.self)
                /\ last' = Outcome("init", "ok", Len(heap) + 1, None, None,
                                   {}, EmptyMap)
           ELSE /\ heap' = heap
                /\ last' = Outcome("init", r.status, 0, None, None, {},
                                   EmptyMap)
    /\ UNCHANGED <<setting_classes, configs, arg, ret>>

\* instance.set(raw)
Set(id, raw) ==
    /\ LET r == Setting_set(setting_classes, heap, id, raw)
       IN  /\ heap' = r.heap
           /\ last' = Outcome("set", r.status, id, raw,
                              Setting_get(heap, id), {}, EmptyMap)
    /\ UNCHANGED <<setting_classes, configs, arg, ret>>

\* instance.get()
Get(id) ==
    /\ last' = Outcome("get", "ok", id, None, Setting_get(heap, id), {},
                       EmptyMap)
    /\ UNCHANGED <<setting_classes, heap, configs, arg, ret>>

\* make_settings(ignores) called directly; the caller gets the dict
MakeSettings(ignores) ==
    /\ last' = LET r == make_settings(setting_classes, ignores)
               IN  Outcome("make_settings", r.status, 0, None, None, ignores,
                           r.settings)
    /\ UNCHANGED <<setting_classes, heap, configs, arg, ret>>

\* Config(): self.settings = make_settings()
NewConfig ==
    /\ Len(configs) < MaxConfigs
    /\ LET r == make_settings(setting_classes, {})
           a == Allocate(heap, r.settings, DOMAIN r.settings)
       IN  IF r.status = "ok"
           THEN /\ Len(a.heap) <= MaxObjs
                /\ heap' = a.heap
                /\ configs' = Append(configs, [settings |-> a.ids])
                /\ last' = Outcome("config", "ok", Len(configs) + 1, None,
                                   None, {}, EmptyMap)
           ELSE /\ UNCHANGED <<heap, configs>>
                /\ last' = Outcome("config", r.status, 0, None, None, {},
                                   EmptyMap)
    /\ UNCHANGED <<setting_classes, arg, ret>>

Next ==
    \/ \E body \in ClassBodies : DeclareKind(body)
    \/ DeclareRoot
    \/ \E k \in 1..Len(setting_classes) : Construct(k)
    \/ \E id \in 1..Len(heap), raw \in RawInputs : Set(id, raw)
    \/ \E id \in 1..Len(heap) : Get(id)

\* Declaring kinds, constructing instances, set and get
Spec == Init /\ [][Next]_vars

NextConfig ==
    \/ \E body \in ClassBodies : DeclareKind(body)
    \/ \E ignores \in SUBSET Names : MakeSettings(ignores)
    \/ NewConfig
    \/ \E id \in 1..Len(heap), raw \in RawInputs : Set(id, raw)

\* Declaring kinds, make_settings, Config objects and set on their settings
SpecConfig == Init /\ [][NextConfig]_vars

----------------------------------------------------------------------------
(* The pure functions, each applied once to an argument drawn at Init *)

\* the strings of at most MaxStrLen characters over chars
Strings(chars) == UNION {[1..n -> chars] : n \in 0..MaxStrLen}

StateAtImport ==
    /\ setting_classes = <<>>
    /\ heap = <<>>
    /\ configs = <<>>
    /\ last = Outcome("import", "ok", 0, None, None, {}, EmptyMap)

Called(r) == [called |-> TRUE, status |-> r.status, val |-> r.val]

ListElements == {None, PyInt(1), PyStr(<<" ", "x", " ">>), PyStr(<<"y">>), PyStr(<<" ">>)}

ListInputs ==
    {PyStr(cs) : cs \in Strings({"a", " ", ","})}
      \cup {None, PyBool(FALSE), PyInt(0), PyInt(5), PyList(<<>>)}
      \cup {PyList(<<e>>) : e \in ListElements}
      \cup {PyList(<<e, f>>) : e \in ListElements, f \in ListElements}

InitList == StateAtImport /\ arg \in ListInputs /\ ret = NoCall

CallStringList ==
    /\ ~ret.called
    /\ ret' = Called(validate_string_list(arg))
    /\ UNCHANGED <<setting_classes, heap, configs, last, arg>>

\* validate_string_list applied to one input
SpecList == InitList /\ [][CallStringList]_vars

CallableInputs ==
    {PyStr(cs) : cs \in Strings({"m", "f", "g", "b", "v", "."})}
      \cup {None, PyInt(5), PyFunc(2), PyFunc(3), PyFunc(0), PyBuiltin}

Arities == {None, PyInt(2), PyInt(3)}

InitCallable ==
    /\ StateAtImport
    /\ arg \in [arity : Arities, val : CallableInputs]
    /\ ret = NoCall

CallValidateCallable ==
    /\ ~ret.called
    /\ ret' = Called(validate_callable(arg.arity, arg.val))
    /\ UNCHANGED <<setting_classes, heap, configs, last, arg>>

\* validate_callable(arity) applied to one input
SpecCallable == InitCallable /\ [][CallValidateCallable]_vars

\* setting instances as add_option reads them
OptionInputs ==
    [name : {PyStr(<<"x">>)},
     short : {PyStr(<<"h">>)},
     default : {None, PyInt(3)},
     cli : {None, PyList(<<>>), PyList(<<PyStr(<<"-", "x">>)>>),
            PyList(<<PyStr(<<"-", "x">>), PyStr(<<"-", "-", "x">>)>>)},
     action : {None, STORE, STORE_TRUE},
     type : {None, PyType_int},
     metavar : {None, PyStr(<<"M">>)},
     nargs : {None, PyStr(<<"?">>)},
     const : {None, PyInt(0)}]

InitOption ==
    /\ StateAtImport
    /\ arg \in OptionInputs
    /\ ret = [called |-> FALSE, status |-> "ok", val |-> <<>>]

CallAddOption ==
    /\ ~ret.called
    /\ ret' = [called |-> TRUE, status |-> "ok", val |-> add_option(arg, <<>>)]
    /\ UNCHANGED <<setting_classes, heap, configs, last, arg>>

\* add_option of one setting on an empty parser
SpecOption == InitOption /\ [][CallAddOption]_vars

----------------------------------------------------------------------------
(* Claims on the registry and on Setting instances (Spec) *)

\* a class statement with a Setting base that completed
DeclaredStep(body) == DeclareKind(body) /\ last'.status = "ok"

\* C1: the kind declared i-th (0-based) sits at registry position i with
\* order i: every registered order equals its position, a completed
\* declaration grows the registry by exactly the declared kind at the end
\* with order = the previous length, and no step changes or removes an
\* entry already registered.
C1_RegistryOrder ==
    /\ [](\A i \in 1..Len(setting_classes) : setting_classes[i].order = i - 1)
    /\ [][\A body \in ClassBodies :
            DeclaredStep(body) =>
              /\ Len(setting_classes') = Len(setting_classes) + 1
              /\ setting_classes'[Len(setting_classes')].name = body.name
              /\ setting_classes'[Len(setting_classes')].order
                   = Len(setting_classes)]_vars
    /\ [][\A i \in 1..Len(setting_classes) :
            /\ i <= Len(setting_classes')
            /\ setting_classes'[i] = setting_classes[i]]_vars

C1_Witness ==
    /\ Len(setting_classes) >= 2
    /\ setting_classes[1].order = 0
    /\ setting_classes[2].order = 1
    /\ last.op = "class" /\ last.status = "ok"

\* the values the validator of cls returns on the raw inputs and the default
ValidatedValues(cls) ==
    {CallValidator(cls.validator, raw).val :
       raw \in {x \in RawInputs \cup {cls.default} :
                  CallValidator(cls.validator, x).status = "ok"}}

\* C2: the stored value of every instance is None or a value its
\* definition's validator returned.
C2_ValueValidated ==
    \A id \in 1..Len(heap) :
       \/ heap[id].value = None
       \/ heap[id].value \in ValidatedValues(setting_classes[heap[id].cls])

C2_Witness ==
    /\ last.op = "set" /\ last.status = "ok"
    /\ heap[last.id].value # None
    /\ heap[last.id].value # last.raw
    /\ \E id \in 1..Len(heap) : id # last.id /\ heap[id].value # None

\* C3: a set whose raw value the validator rejects raises the validator's
\* failure and get() returns what it returned before the call.
C3_FailedSetKeepsValue ==
    last.op = "set" =>
       LET r == CallValidator(setting_classes[heap[last.id].cls].validator,
                              last.raw)
       IN  r.status # "ok" =>
             /\ last.status = r.status
             /\ Setting_get(heap, last.id) = last.before

C3_Witness ==
    /\ last.op = "set"
    /\ last.status \in {"TypeError", "ValueError"}
    /\ last.before # None
    /\ Setting_get(heap, last.id) = last.before

\* C4: right after construction get() is validator(default) when the
\* definition has a default, and None when it has none.
C4_DefaultValidatedOnInit ==
    (last.op = "init" /\ last.status = "ok") =>
       LET cls == setting_classes[heap[last.id].cls]
       IN  IF cls.default # None
           THEN Return(Setting_get(heap, last.id))
                  = CallValidator(cls.validator, cls.default)
           ELSE Setting_get(heap, last.id) = None

C4_Witness ==
    /\ last.op = "init" /\ last.status = "ok"
    /\ setting_classes[heap[last.id].cls].default # None
    /\ Setting_get(heap, last.id) # setting_classes[heap[last.id].cls].default

----------------------------------------------------------------------------
(* Claims on make_settings and Config (SpecConfig) *)

RegisteredNames == {setting_classes[i].name : i \in 1..Len(setting_classes)}

\* every kind make_settings(ignores) instantiates accepts its own default
DefaultsAccepted(ignores) ==
    \A i \in 1..Len(setting_classes) :
       setting_classes[i].name \notin ignores
         => Setting_init(setting_classes, i).status = "ok"

\* C5: make_settings(ignores) returns a dict whose keys are the registered
\* names minus the ignored ones, each bound to a new instance of the kind
\* of that name (stated for the calls in which every instantiated kind
\* accepts its own default, so that no constructor raises).
C5_MakeSettingsKeys ==
    (last.op = "make_settings" /\ DefaultsAccepted(last.ignores)) =>
       /\ last.status = "ok"
       /\ DOMAIN last.settings = RegisteredNames \ last.ignores
       /\ \A n \in DOMAIN last.settings :
            /\ setting_classes[last.settings[n].cls].name = n
            /\ last.settings[n]
                 = Setting_init(setting_classes, last.settings[n].cls).self

\* the instances of two Config objects are distinct objects
HoldersDisjoint ==
    \A c1, c2 \in 1..Len(configs) :
       c1 # c2 =>
         \A n \in DOMAIN configs[c1].settings, m \in DOMAIN configs[c2].settings :
            configs[c1].settings[n] # configs[c2].settings[m]

Slots(n) == {i \in 1..Len(setting_classes) : setting_classes[i].name = n}

\* C10: with a name carried by two or more registered kinds, each kind has
\* its own slot and order, and make_settings returns one entry per distinct
\* non-ignored name, bound to an instance of the kind declared last under
\* that name (stated for the calls in which every instantiated kind accepts
\* its own default).
C10_DuplicateNames ==
    (/\ last.op = "make_settings"
     /\ DefaultsAccepted(last.ignores)
     /\ \E n \in RegisteredNames \ last.ignores : Cardinality(Slots(n)) >= 2) =>
       /\ \A i \in 1..Len(setting_classes) : setting_classes[i].order = i - 1
       /\ last.status = "ok"
       /\ Cardinality(DOMAIN last.settings)
            = Cardinality(RegisteredNames \ last.ignores)
       /\ \A n \in DOMAIN last.settings :
            last.settings[n].cls = Max(Slots(n))

----------------------------------------------------------------------------
(* Claims on the validators (SpecList, SpecCallable) *)

\* the pieces of cs between commas, trimmed, the empty ones dropped
TrimmedPieces(cs) ==
    LET pieces == Split(cs, ",")
        trimmed == [i \in 1..Len(pieces) |-> Strip(pieces[i])]
        kept == SelectSeq(trimmed, NonEmpty)
    IN  [i \in 1..Len(kept) |-> PyStr(kept[i])]

\* C7: for a string, validate_string_list returns the comma-separated
\* pieces in order, each trimmed, the empty ones dropped, so no element is
\* the empty string; for a falsy input the empty list; for a sequence each
\* element passed through validate_string.
C7_StringList ==
    ret.called =>
       IF ~Truthy(arg) THEN ret.status = "ok" /\ ret.val = PyList(<<>>)
       ELSE IF arg.t = "str"
       THEN /\ ret.status = "ok"
            /\ ret.val = PyList(TrimmedPieces(arg.s))
            /\ \A i \in 1..Len(ret.val.l) : ret.val.l[i] # PyStr(<<>>)
       ELSE IF arg.t = "list"
                 /\ \A i \in 1..Len(arg.l) : validate_string(arg.l[i]).status = "ok"
       THEN /\ ret.status = "ok"
            /\ ret.val = PyList([i \in 1..Len(arg.l) |->
                                   validate_string(arg.l[i]).val])
       ELSE TRUE

\* C8: validate_callable(arity) returns a callable or fails with a
\* TypeError or a ValueError, never with another kind of error.
C8_CallableFailureKinds ==
    ret.called =>
       \/ ret.status = "ok" /\ Callable(ret.val)
       \/ ret.status \in {"TypeError", "ValueError"}

----------------------------------------------------------------------------
(* Claim on add_option (SpecOption) *)

\* C9: without a CLI binding add_option adds nothing; with one it adds one
\* argument with dest = the name, action = the configured action or
\* 'store', default = None, help = the short description, and type,
\* metavar, nargs and const passed through whenever the definition sets them.
C9_AddOption ==
    ret.called =>
       IF ~Truthy(arg.cli) THEN ret.val = <<>>
       ELSE /\ Len(ret.val) = 1
            /\ ret.val[1].flags = arg.cli.l
            /\ LET kw == ret.val[1].kwargs
               IN  /\ kw["dest"] = arg.name
                   /\ kw["action"] = (IF arg.action = None THEN STORE
                                      ELSE arg.action)
                   /\ kw["default"] = None
                   /\ kw["help"] = arg.short
                   /\ arg.type # None =>
                        "type" \in DOMAIN kw /\ kw["type"] = arg.type
                   /\ arg.metavar # None =>
                        "metavar" \in DOMAIN kw /\ kw["metavar"] = arg.metavar
                   /\ arg.nargs # None =>
                        "nargs" \in DOMAIN kw /\ kw["nargs"] = arg.nargs
                   /\ arg.const # None =>
                        "const" \in DOMAIN kw /\ kw["const"] = arg.const

=============================================================================
